---- MODULE Spec2Model ----
(***************************************************************************)
(* Model of gcp-tunnel-client/webapp/app.py: the OAuth callback, the       *)
(* provisioning run (run_setup) and the two JSON files they persist.       *)
(* A request handler is executed one at a time (pc = "idle" between         *)
(* requests); run_setup is split at its outbound HTTP calls so that the    *)
(* persisted file can be observed between them.                            *)
(***************************************************************************)
EXTENDS Integers, Sequences, FiniteSets, TLC

\* ---------------------------------------------------------------- bounds
\* Number of distinct values each random source (secrets.token_*) can give.
MaxRandom == 2

\* ------------------------------------------------------- Python values
None == "<None>"
Missing == "<missing>"
EmptyDict == [k \in {} |-> ""]

\* Python truthiness of an optional string
Truthy(x) == x \notin {None, Missing, ""}

\* dict.get(key, default)
DictGet(d, k, default) == IF k \in DOMAIN d THEN d[k] ELSE default

\* ------------------------------------------------------ program constants
TUNNEL_IMAGE == "ghcr.io/bramalkema/gcp-ha-tunnel/tunnel-server:latest"
APIS == <<"run.googleapis.com", "cloudbuild.googleapis.com">>

StepOrder == <<"start", "authenticated", "creating_project", "linking_billing",
               "enabling_apis", "deploying", "complete">>
StepRank(s) == CHOOSE i \in 1..Len(StepOrder) : StepOrder[i] = s

\* ------------------------------------------------------- random sources
Randoms == 1..MaxRandom
generate_project_name(suffix) == "ha-tunnel-" \o ToString(suffix)
generate_password(r) == "pw-" \o ToString(r)
CodeVerifier(r) == "verifier-" \o ToString(r)
CodeChallenge(v) == "S256:" \o v

\* ------------------------------------------------------------ the files
\* A file does not exist, holds one JSON object, or holds the text a write
\* that was cut short left behind (json = FALSE: json.loads raises on it).
NoFile == [exists |-> FALSE, json |-> FALSE, data |-> EmptyDict]
JsonFile(d) == [exists |-> TRUE, json |-> TRUE, data |-> d]
TornFile == [exists |-> TRUE, json |-> FALSE, data |-> EmptyDict]

\* json.loads(path.read_text()) raises
Unreadable(f) == f.exists /\ ~f.json

DefaultState == [step |-> "start", project_id |-> None, password |-> None,
                 server_url |-> Missing]

\* get_setup_state(): the file's content, or the default state
get_setup_state(f) == IF f.exists THEN f.data ELSE DefaultState

\* get_token(): the file's content, or None (here: the absent file)
get_token(f) == f

\* variant: the token check is dropped
NotTokenNever(t) == FALSE

\* "if not token": None and the empty dict are both falsy
NotToken(t) == ~t.exists \/ DOMAIN t.data = {}

\* ------------------------------------------------- inputs and environment
Codes == {None, "", "4/0AbC"}
Errors == {None, "", "access_denied"}
BillingInputs == {None, "", "billingAccounts/ABC123"}
\* status codes an endpoint may answer with
Answers(name) ==
    CASE name \in {"projects.create", "services.create"} -> {200, 201, 409, 500}
      [] name = "services.replace" -> {200, 201, 500}
      [] name = "token" -> {200, 400}
      [] name = "billingInfo.put" -> {200, 403}
      [] name = "services.get" -> {200, 404}
      [] name = "addon.options" -> {200, 400}
      [] OTHER -> {200, 403}

\* a call either raises (no answer) or returns an answer
Raised == [raised |-> TRUE, status_code |-> 0]
Returned(s) == [raised |-> FALSE, status_code |-> s]
Outcomes(name) == {Returned(s) : s \in Answers(name)} \cup {Raised}
NoOutcome == Returned(0)

\* bodies the token endpoint may send
TokenBodies == {EmptyDict,
                [access_token |-> "ya29"],
                [error |-> "invalid_grant"]}

\* bodies the service-get call may send
ServiceBodies == {EmptyDict,
                  [status |-> EmptyDict],
                  [status |-> [url |-> ""]],
                  [status |-> [url |-> "https://ha-tunnel.a.run.app"]]}

\* what resp.json() gives: a body, or an exception when it is not JSON
NotJson == [raised |-> TRUE, body |-> EmptyDict]
Parsed(b) == [raised |-> FALSE, body |-> b]
JsonResults(bodies) == {Parsed(b) : b \in bodies} \cup {NotJson}

\* ------------------------------------------------------------ responses
NoResponse == [handler |-> "", status |-> 0, error |-> "", billing_required |-> FALSE,
               success |-> FALSE, project_id |-> "", server_url |-> "",
               password |-> "", location |-> "", authenticated |-> FALSE,
               step |-> "", has_password |-> FALSE]
ErrorPage(h, msg) == [NoResponse EXCEPT !.handler = h, !.status = 200, !.error = msg]
Redirect(h, loc) == [NoResponse EXCEPT !.handler = h, !.status = 302, !.location = loc]
JsonError(h, code, msg) == [NoResponse EXCEPT !.handler = h, !.status = code, !.error = msg]
Unhandled(h) == JsonError(h, 500, "Internal Server Error")

\* ------------------------------------------------------------- requests
Request(h, code, error, billing) ==
    [handler |-> h, code |-> code, error |-> error, billing_account |-> billing]

VARIABLES
    tokenFile,          \* /data/google_token.json
    setupFile,          \* /data/setup_state.json
    session,            \* session["code_verifier"]
    supervisor_token,   \* os.environ["SUPERVISOR_TOKEN"]
    crashing,           \* whether the process can be killed during a write
    projects,           \* the cloud: ids of the projects that exist
    pc,                 \* position of the request in flight, "idle" if none
    token,              \* run_setup locals
    state,
    project_id,
    password,
    billing_account,
    api,                \* index of the API being enabled
    resp,               \* outcome of the latest outbound call of the run
    request,            \* arguments of the latest request handled
    calls,              \* outbound HTTP requests of the latest request handled
    response            \* what the latest handler returned

vars == <<tokenFile, setupFile, session, supervisor_token, crashing, projects, pc, token, state,
          project_id, password, billing_account, api, resp, request, calls,
          response>>

files == <<tokenFile, setupFile>>
locals == <<token, state, project_id, password, billing_account, api, resp>>
env == <<supervisor_token, crashing, projects>>

Boot ==
    /\ projects = {}
    /\ tokenFile = NoFile
    /\ setupFile = NoFile
    /\ session = None
    /\ supervisor_token \in {None, "supervisor"}
    /\ pc = "idle"
    /\ token = NoFile
    /\ state = DefaultState
    /\ project_id = None
    /\ password = None
    /\ billing_account = None
    /\ api = 0
    /\ resp = NoOutcome
    /\ request = Request("", None, None, None)
    /\ calls = <<>>
    /\ response = NoResponse

\* the process is never killed
Init == Boot /\ crashing = FALSE

\* the process can be killed inside Path.write_text
CrashInit == Boot /\ crashing = TRUE

\* Path.write_text opens the file for writing, which empties it, and then
\* writes the text: the file holds the new record, or is left torn when the
\* process is killed in between
WriteText(d) == {JsonFile(d)} \cup (IF crashing THEN {TornFile} ELSE {})

\* where the request is after a write into f: nowhere when the write killed
\* the process
AfterWrite(f, next) == IF Unreadable(f) THEN "idle" ELSE next

\* ------------------------------------------------------- outbound calls
\* One outbound request: what was sent, the persisted step when it was sent,
\* and the status the handler read from the answer (0 when it raised or when
\* the handler never looks at the answer).
Call(name, pid, payload, status) ==
    [api |-> name, project_id |-> pid, payload |-> payload,
     step |-> IF Unreadable(setupFile) THEN None
                                       ELSE get_setup_state(setupFile).step,
     status |-> status]

Seen(out) == IF out.raised THEN 0 ELSE out.status_code

\* ------------------------------------------------------------ auth_start
AuthStart ==
    /\ pc = "idle"
    /\ \E r \in Randoms :
         LET code_verifier == CodeVerifier(r) IN
         /\ session' = code_verifier
         /\ response' = Redirect("auth_start", CodeChallenge(code_verifier))
    /\ request' = Request("auth_start", None, None, None)
    /\ calls' = <<>>
    /\ UNCHANGED <<files, env, pc, locals>>

\* --------------------------------------------------------- auth_callback
\* variant: only server errors count as a failed exchange
TokenExchangeFailedOn5xx(status) == status >= 500

\* "if resp.status_code != 200"
TokenExchangeFailed(status) == status # 200

\* state["step"] = "authenticated"
AuthenticatedState(s) == [s EXCEPT !.step = "authenticated"]

\* the form posted to the token endpoint
TokenRequest(code, verifier) == [code |-> code, code_verifier |-> verifier]

\* lines 148-181
AuthCallback ==
    /\ pc = "idle"
    /\ \E code \in Codes, error \in Errors :
         /\ request' = Request("auth_callback", code, error, None)
         /\ IF Truthy(error) THEN
                /\ response' = ErrorPage("auth_callback", error)
                /\ calls' = <<>>
                /\ UNCHANGED files
            ELSE IF ~Truthy(code) THEN
                /\ response' = ErrorPage("auth_callback", "No authorization code received")
                /\ calls' = <<>>
                /\ UNCHANGED files
            ELSE \E out \in Outcomes("token") :
                /\ calls' = <<Call("token", "", TokenRequest(code, session), Seen(out))>>
                /\ IF out.raised THEN
                       \* requests.post raised: nothing catches it
                       /\ response' = Unhandled("auth_callback")
                       /\ UNCHANGED files
                   ELSE IF TokenExchangeFailed(out.status_code) THEN
                       /\ response' = ErrorPage("auth_callback", "Token exchange failed")
                       /\ UNCHANGED files
                   ELSE \E tok \in JsonResults(TokenBodies) :
                       IF tok.raised THEN
                           \* resp.json() raised: nothing catches it
                           /\ response' = Unhandled("auth_callback")
                           /\ UNCHANGED files
                       ELSE
                           /\ tokenFile' \in WriteText(tok.body)
                           /\ IF Unreadable(tokenFile') THEN
                                  \* killed in save_token
                                  /\ response' = NoResponse
                                  /\ UNCHANGED setupFile
                              ELSE IF Unreadable(setupFile) THEN
                                  \* get_setup_state raised: nothing catches it
                                  /\ response' = Unhandled("auth_callback")
                                  /\ UNCHANGED setupFile
                              ELSE
                                  /\ setupFile' \in WriteText(AuthenticatedState(
                                                        get_setup_state(setupFile)))
                                  /\ response' = IF Unreadable(setupFile')
                                                    THEN NoResponse
                                                    ELSE Redirect("auth_callback", "/")
    /\ UNCHANGED <<session, env, pc, locals>>

\* ------------------------------------------------------------- run_setup
\* variant: a fresh name on every run
ResolveProjectIdFresh(s) == {generate_project_name(x) : x \in Randoms}

\* state.get("project_id") or generate_project_name(): the values it can give
\* (the generator is only called when nothing is stored)
ResolveProjectId(s) ==
    IF Truthy(s.project_id) THEN {s.project_id}
                            ELSE {generate_project_name(x) : x \in Randoms}

\* state.get("password") or generate_password(): the values it can give
ResolvePassword(s) ==
    IF Truthy(s.password) THEN {s.password}
                          ELSE {generate_password(x) : x \in Randoms}

\* gcp_api builds its headers from token['access_token'] before it sends
CanBuildHeaders(t) == t.exists /\ "access_token" \in DOMAIN t.data

\* the service descriptor of the deploy step
ServiceConfig(pw) ==
    [name |-> "ha-tunnel", ingress |-> "all", minScale |-> "0", maxScale |-> "1",
     cpu_throttling |-> "true", containerConcurrency |-> 80, timeoutSeconds |-> 3600,
     image |-> TUNNEL_IMAGE, AUTH |-> "hauser:" \o pw, cpu |-> "1",
     memory |-> "256Mi", containerPort |-> 8080]

\* state.get("server_url", "")
ServerUrlOrEmpty(s) == IF s.server_url = Missing THEN "" ELSE s.server_url

\* variant: the publisher is handed an empty password
AddonOptionsNoPassword(s) ==
    [server_url |-> ServerUrlOrEmpty(s), auth_user |-> "hauser",
     auth_pass |-> "", google_project_id |-> s.project_id,
     local_port |-> 8123, keepalive |-> "25s", log_level |-> "info",
     google_secure_devices_pin |-> ""]

\* the options update_addon_config posts
AddonOptions(s) ==
    [server_url |-> ServerUrlOrEmpty(s), auth_user |-> "hauser",
     auth_pass |-> s.password, google_project_id |-> s.project_id,
     local_port |-> 8123, keepalive |-> "25s", log_level |-> "info",
     google_secure_devices_pin |-> ""]

\* gcp_api: no request leaves when the headers cannot be built
Effective(out) == IF CanBuildHeaders(token) THEN out ELSE Raised
Log(c) == IF CanBuildHeaders(token) THEN Append(calls, c) ELSE calls

ResetLocals ==
    /\ token' = NoFile
    /\ state' = DefaultState
    /\ project_id' = None
    /\ password' = None
    /\ billing_account' = None
    /\ api' = 0
    /\ resp' = NoOutcome

\* the handler returns r
Return(r) ==
    /\ pc' = "idle"
    /\ response' = r
    /\ ResetLocals

\* "except Exception as e: return jsonify({"error": str(e)}), 500"
ExceptionResponse == JsonError("run_setup", 500, "exception")

\* variant: the step is set in memory and not written
SaveStepUnsaved(step) ==
    /\ state' = [state EXCEPT !.step = step]
    /\ setupFile' = setupFile

\* state["step"] = step; save_setup_state(state)
SaveStep(step) ==
    /\ state' = [state EXCEPT !.step = step]
    /\ setupFile' \in WriteText([state EXCEPT !.step = step])

Continue(next) ==
    /\ pc' = next
    /\ UNCHANGED <<token, project_id, password, billing_account, response>>

\* lines 208-224
RunSetup ==
    /\ pc = "idle"
    /\ calls' = <<>>
    /\ \E billing \in BillingInputs :
         /\ request' = Request("run_setup", None, None, billing)
         /\ LET t == get_token(tokenFile)
                s == get_setup_state(setupFile)
            IN  IF Unreadable(t) THEN
                    \* get_token raised: nothing catches it
                    /\ response' = Unhandled("run_setup")
                    /\ UNCHANGED <<files, pc, locals>>
                ELSE IF NotToken(t) THEN
                    /\ response' = JsonError("run_setup", 401, "Not authenticated")
                    /\ UNCHANGED <<files, pc, locals>>
                ELSE IF Unreadable(setupFile) THEN
                    \* get_setup_state raised, before the try
                    /\ response' = Unhandled("run_setup")
                    /\ UNCHANGED <<files, pc, locals>>
                ELSE \E pid \in ResolveProjectId(s), pw \in ResolvePassword(s) :
                    LET s2 == [s EXCEPT !.project_id = pid, !.password = pw,
                                        !.step = "creating_project"]
                    IN  /\ token' = t
                        /\ state' = s2
                        /\ project_id' = pid
                        /\ password' = pw
                        /\ billing_account' = billing
                        /\ setupFile' \in WriteText(s2)
                        /\ pc' = AfterWrite(setupFile', "create_project")
                        /\ response' = NoResponse
                        /\ UNCHANGED <<tokenFile, api, resp>>
    /\ UNCHANGED <<session, env>>

\* variant: a conflict is not accepted
ProjectCreateOkNoConflict(status) == status = 200

\* "if resp.status_code not in [200, 409]" is the failure test
ProjectCreateOk(status) == status \in {200, 409}

\* the cloud creates a project once: a create for an id that exists is
\* refused (409 ALREADY_EXISTS) or fails
ProjectOutcomes(pid) ==
    IF pid \in projects
      THEN {o \in Outcomes("projects.create") : o.raised \/ o.status_code >= 400}
      ELSE Outcomes("projects.create")

\* a 2xx answer to the create call: the project exists from now on
ProjectsAfter(pid, out) ==
    IF ~out.raised /\ out.status_code < 300 THEN projects \cup {pid} ELSE projects

\* lines 227-237
CreateProject ==
    /\ pc = "create_project"
    /\ \E o \in ProjectOutcomes(project_id) :
         LET out == Effective(o) IN
         /\ calls' = Log(Call("projects.create", project_id, EmptyDict, Seen(out)))
         /\ projects' = ProjectsAfter(project_id, out)
         /\ IF out.raised THEN
                Return(ExceptionResponse) /\ UNCHANGED setupFile
            ELSE IF ~ProjectCreateOk(out.status_code) THEN
                /\ Return(JsonError("run_setup", 500, "Failed to create project"))
                /\ UNCHANGED setupFile
            ELSE
                /\ SaveStep("linking_billing")
                /\ resp' = out
                /\ api' = api
                /\ Continue(AfterWrite(setupFile', "link_billing"))
    /\ UNCHANGED <<tokenFile, session, supervisor_token, crashing, request>>

\* variant: billing is never linked
ShouldLinkBillingNever(b) == FALSE

\* "if billing_account:"
ShouldLinkBilling(b) == Truthy(b)

\* variant: the answer of the billing call is ignored
BillingLinkOkAlways(status) == TRUE

\* "if resp.status_code != 200" is the failure test
BillingLinkOk(status) == status = 200

BillingRequired == [JsonError("run_setup", 400, "Failed to link billing")
                        EXCEPT !.billing_required = TRUE]

\* lines 239-251
LinkBilling ==
    /\ pc = "link_billing"
    /\ IF ~ShouldLinkBilling(billing_account) THEN
           /\ SaveStep("enabling_apis")
           /\ api' = 1
           /\ Continue(AfterWrite(setupFile', "enable_apis"))
           /\ UNCHANGED <<resp, calls>>
       ELSE \E o \in Outcomes("billingInfo.put") :
           LET out == Effective(o) IN
           /\ calls' = Log(Call("billingInfo.put", project_id,
                                [billingAccountName |-> billing_account], Seen(out)))
           /\ IF out.raised THEN
                  Return(ExceptionResponse) /\ UNCHANGED setupFile
              ELSE IF ~BillingLinkOk(out.status_code) THEN
                  Return(BillingRequired) /\ UNCHANGED setupFile
              ELSE
                  /\ SaveStep("enabling_apis")
                  /\ resp' = out
                  /\ api' = 1
                  /\ Continue(AfterWrite(setupFile', "enable_apis"))
    /\ UNCHANGED <<tokenFile, session, env, request>>

\* lines 253-266: one pass of the loop; after the last API, sleep and save
EnableApi ==
    /\ pc = "enable_apis"
    /\ \E o \in Outcomes(APIS[api]) :
         LET out == Effective(o) IN
         /\ calls' = Log(Call(APIS[api], project_id, EmptyDict, 0))
         /\ IF out.raised THEN
                Return(ExceptionResponse) /\ UNCHANGED setupFile
            ELSE IF api < Len(APIS) THEN
                /\ api' = api + 1
                /\ resp' = out
                /\ Continue("enable_apis")
                /\ UNCHANGED <<state, setupFile>>
            ELSE
                /\ SaveStep("deploying")
                /\ api' = 0
                /\ resp' = out
                /\ Continue(AfterWrite(setupFile', "deploy_create"))
    /\ UNCHANGED <<tokenFile, session, env, request>>

\* "if resp.status_code not in [200, 201]" is the failure test
DeployOk(status) == status \in {200, 201}

\* lines 268-315
DeployCreate ==
    /\ pc = "deploy_create"
    /\ \E o \in Outcomes("services.create") :
         LET out == Effective(o) IN
         /\ calls' = Log(Call("services.create", project_id, ServiceConfig(password),
                              Seen(out)))
         /\ IF out.raised THEN
                Return(ExceptionResponse)
            ELSE
                /\ resp' = out
                /\ Continue(IF DeployOk(out.status_code) THEN "set_iam"
                                                         ELSE "deploy_update")
                /\ UNCHANGED <<state, api>>
    /\ UNCHANGED <<files, session, env, request>>

\* lines 316-323
DeployUpdate ==
    /\ pc = "deploy_update"
    /\ \E o \in Outcomes("services.replace") :
         LET out == Effective(o) IN
         /\ calls' = Log(Call("services.replace", project_id, ServiceConfig(password),
                              Seen(out)))
         /\ IF out.raised THEN
                Return(ExceptionResponse)
            ELSE IF ~DeployOk(out.status_code) THEN
                Return(JsonError("run_setup", 500, "Failed to deploy"))
            ELSE
                /\ resp' = out
                /\ Continue("set_iam")
                /\ UNCHANGED <<state, api>>
    /\ UNCHANGED <<files, session, env, request>>

\* lines 325-336
SetIamPolicy ==
    /\ pc = "set_iam"
    /\ \E o \in Outcomes("services.setIamPolicy") :
         LET out == Effective(o) IN
         /\ calls' = Log(Call("services.setIamPolicy", project_id, EmptyDict, 0))
         /\ IF out.raised THEN
                Return(ExceptionResponse)
            ELSE
                /\ resp' = out
                /\ Continue("get_service")
                /\ UNCHANGED <<state, api>>
    /\ UNCHANGED <<files, session, env, request>>

\* service_data.get("status", {}).get("url", "")
ServiceUrl(service_data) == DictGet(DictGet(service_data, "status", EmptyDict), "url", "")

\* lines 338-349
GetService ==
    /\ pc = "get_service"
    /\ \E o \in Outcomes("services.get") :
         LET out == Effective(o) IN
         /\ calls' = Log(Call("services.get", project_id, EmptyDict, Seen(out)))
         /\ IF out.raised THEN
                Return(ExceptionResponse) /\ UNCHANGED setupFile
            ELSE IF out.status_code = 200 THEN
                \E service_data \in JsonResults(ServiceBodies) :
                    IF service_data.raised THEN
                        Return(ExceptionResponse) /\ UNCHANGED setupFile
                    ELSE
                        LET done == [state EXCEPT
                                       !.server_url = ServiceUrl(service_data.body),
                                       !.step = "complete"]
                        IN  /\ state' = done
                            /\ setupFile' \in WriteText(done)
                            /\ resp' = out
                            /\ api' = api
                            /\ Continue(AfterWrite(setupFile', "update_addon_config"))
            ELSE
                /\ SaveStep("complete")
                /\ resp' = out
                /\ api' = api
                /\ Continue(AfterWrite(setupFile', "update_addon_config"))
    /\ UNCHANGED <<tokenFile, session, env, request>>

SuccessResponse ==
    [NoResponse EXCEPT !.handler = "run_setup", !.status = 200, !.success = TRUE,
                       !.project_id = project_id,
                       !.server_url = ServerUrlOrEmpty(state),
                       !.password = password]

\* lines 351-359 and update_addon_config, lines 365-393
UpdateAddonConfig ==
    /\ pc = "update_addon_config"
    /\ IF ~Truthy(supervisor_token) THEN
           /\ calls' = calls
           /\ Return(SuccessResponse)
       ELSE \E post \in Outcomes("addon.options") :
           LET options == Call("addon.options", "", AddonOptions(state), Seen(post))
               restarted == Call("addon.restart", "", EmptyDict, 0)
           IN  IF post.raised THEN
                   /\ calls' = Append(calls, options)
                   /\ Return(ExceptionResponse)
               ELSE IF post.status_code # 200 THEN
                   /\ calls' = Append(calls, options)
                   /\ Return(SuccessResponse)
               ELSE \E restart \in Outcomes("addon.restart") :
                   /\ calls' = Append(Append(calls, options), restarted)
                   /\ Return(IF restart.raised THEN ExceptionResponse
                                               ELSE SuccessResponse)
    /\ UNCHANGED <<files, session, env, request>>

\* ------------------------------------------------------------ get_status
\* variant: the password is returned in place of the server URL
StatusOutputWrongField(s, t) ==
    [NoResponse EXCEPT !.handler = "get_status", !.status = 200,
                       !.authenticated = t.exists,
                       !.step = s.step,
                       !.project_id = s.project_id,
                       !.server_url = s.password,
                       !.has_password = (s.password # None)]

\* lines 399-408: the JSON get_status returns for setup state s and token t
StatusOutput(s, t) ==
    [NoResponse EXCEPT !.handler = "get_status", !.status = 200,
                       !.authenticated = t.exists,
                       !.step = s.step,
                       !.project_id = s.project_id,
                       !.server_url = IF s.server_url = Missing THEN None
                                                                ELSE s.server_url,
                       !.has_password = (s.password # None)]

\* lines 396-408
GetStatus ==
    /\ pc = "idle"
    /\ response' = IF Unreadable(setupFile) \/ Unreadable(tokenFile)
                      THEN Unhandled("get_status")   \* a load raised
                      ELSE StatusOutput(get_setup_state(setupFile),
                                        get_token(tokenFile))
    /\ request' = Request("get_status", None, None, None)
    /\ calls' = <<>>
    /\ UNCHANGED <<files, session, env, pc, locals>>

Next ==
    \/ GetStatus
    \/ AuthStart
    \/ AuthCallback
    \/ RunSetup
    \/ CreateProject
    \/ LinkBilling
    \/ EnableApi
    \/ DeployCreate
    \/ DeployUpdate
    \/ SetIamPolicy
    \/ GetService
    \/ UpdateAddonConfig

Spec == Init /\ [][Next]_vars

\* the same program on a host that can kill the process during a write
SpecCrash == CrashInit /\ [][Next]_vars

\* A handler that was entered runs on to its return (every outbound call
\* returns or raises), the caller invokes run_setup again after every run
\* that ended, and a project-create, billing or service create/update call
\* that is tried again and again is in the end answered with success or
\* conflict.
Fairness ==
    /\ WF_vars(Next)
    /\ WF_vars(RunSetup)
    /\ SF_vars(CreateProject /\ pc' = "link_billing")
    /\ SF_vars(LinkBilling /\ pc' = "enable_apis")
    /\ SF_vars((DeployCreate \/ DeployUpdate) /\ pc' = "set_iam")

SpecLive == Init /\ [][Next]_vars /\ Fairness
\* ================================================================ claims
Persisted == get_setup_state(setupFile)

\* RFC 6749 3.1: a parameter sent without a value counts as omitted
Present(x) == x # None /\ x # ""

\* a step of the run issued an outbound call
Issued == Len(calls') = Len(calls) + 1
LastCall == calls'[Len(calls')]

\* an error answer (4xx, 5xx)
ErrorStatus(status) == status >= 400

\* the latest run_setup request has returned
RunEnded == pc = "idle" /\ response.handler = "run_setup"

\* a step taken by auth_callback
AuthCallbackStep == pc = "idle" /\ response'.handler = "auth_callback"

\* C1: every write of the setup state stores a step that is greater than or
\* equal to the previously persisted step in the order start < authenticated <
\* creating_project < linking_billing < enabling_apis < deploying < complete.
C1_StepNeverMovesBack ==
    [][StepRank(Persisted'.step) >= StepRank(Persisted.step)]_vars

\* C2: once project_id and password are persisted they never change, and each
\* project-create call carries the project_id that was persisted before it.
C2_IdentifiersKept ==
    [][/\ Truthy(Persisted.project_id)
            => Persisted'.project_id = Persisted.project_id
       /\ Truthy(Persisted.password)
            => Persisted'.password = Persisted.password
       /\ (pc = "create_project" /\ Issued)
            => /\ LastCall.api = "projects.create"
               /\ LastCall.project_id = Persisted.project_id
               /\ Persisted'.project_id = Persisted.project_id]_vars

\* a re-invocation (an earlier run already stored a server_url) has issued its
\* project-create call with the persisted project_id
C2_Witness ==
    /\ pc = "link_billing"
    /\ Persisted.server_url # Missing
    /\ calls[1].api = "projects.create"
    /\ calls[1].project_id = Persisted.project_id

\* C3: with no token record stored, run_setup answers 401 "Not authenticated",
\* issues no call and leaves both files as they were.
C3_NotAuthenticated ==
    [][(pc = "idle" /\ ~tokenFile.exists
            /\ (pc' # "idle" \/ response'.handler = "run_setup"))
         => /\ pc' = "idle"
            /\ response' = JsonError("run_setup", 401, "Not authenticated")
            /\ calls' = <<>>
            /\ setupFile' = setupFile
            /\ tokenFile' = tokenFile]_vars

C3_Witness ==
    /\ RunEnded
    /\ response.status = 401
    /\ ~tokenFile.exists
    /\ calls = <<>>

\* C4: auth_callback answers with the error page of the error parameter when
\* one is present (with or without a code), with "No authorization code
\* received" when neither is present, and with "Token exchange failed" when
\* the token endpoint answers with an error status; in these three cases the
\* token file and the persisted step are left as they were.
C4_AuthCallbackFailures ==
    [][AuthCallbackStep =>
         LET denied == Present(request'.error)
             missing == ~denied /\ ~Present(request'.code)
             refused == /\ ~denied /\ ~missing
                        /\ calls' # <<>>
                        /\ ErrorStatus(calls'[1].status)
         IN  /\ denied => response' = ErrorPage("auth_callback", request'.error)
             /\ missing => response' = ErrorPage("auth_callback",
                                                 "No authorization code received")
             /\ refused => response' = ErrorPage("auth_callback",
                                                 "Token exchange failed")
             /\ (denied \/ missing \/ refused)
                  => /\ tokenFile' = tokenFile
                     /\ Persisted'.step = Persisted.step
                     /\ setupFile' = setupFile]_vars

\* an error parameter arrived together with a code, after a run had moved the
\* persisted step on
C4_Witness ==
    /\ response.handler = "auth_callback"
    /\ Present(request.error)
    /\ Present(request.code)
    /\ response.error = request.error
    /\ Persisted.step = "deploying"

\* C5: a successful auth_callback sets the persisted step to authenticated if
\* it was start and leaves it as it was otherwise.
C5_StepOnlyFromStart ==
    [][(AuthCallbackStep /\ response'.status = 302)
         => Persisted'.step = IF Persisted.step = "start" THEN "authenticated"
                                                         ELSE Persisted.step]_vars

\* C6: in the create-project step a conflict answer continues exactly like
\* success, to linking_billing; an error answer other than a conflict ends the
\* run with "Failed to create project", the persisted step still
\* creating_project and the project-create call the only call of the run.
C6_CreateProject ==
    [][(pc = "create_project" /\ Issued) =>
         /\ LastCall.status \in {200, 409}
              => /\ pc' = "link_billing"
                 /\ Persisted'.step = "linking_billing"
                 /\ response' = response
         /\ (ErrorStatus(LastCall.status) /\ LastCall.status # 409)
              => /\ pc' = "idle"
                 /\ response' = JsonError("run_setup", 500, "Failed to create project")
                 /\ Persisted'.step = "creating_project"
                 /\ calls' = <<LastCall>>]_vars

\* the project-create call was answered "already exists" and the run went on
C6_Witness ==
    /\ pc = "link_billing"
    /\ calls[1].api = "projects.create"
    /\ calls[1].status = 409
    /\ Persisted.step = "linking_billing"

C8_BestEffortNeverAborts ==
    [][(pc = "enable_apis" \/ pc = "set_iam") => pc' # "idle"]_vars

\* C9: once step complete is persisted, whatever happens in
\* update_addon_config, run_setup returns the success result
\* {project_id, server_url, password}.
C9_PublisherNeverFails ==
    [][(pc = "update_addon_config" /\ Persisted.step = "complete")
         => /\ pc' = "idle"
            /\ response'.success
            /\ response'.status = 200
            /\ response'.project_id = Persisted.project_id
            /\ response'.password = Persisted.password
            /\ response'.server_url = ServerUrlOrEmpty(Persisted)]_vars

\* C10: when the service-create call was answered "already exists", an update
\* call carrying the descriptor of the create call was issued; and when that
\* update was accepted and no call of the run raised, the run ended reporting
\* step complete with a non-empty server_url.
C10_UpdateFallbackCompletes ==
    (/\ RunEnded
     /\ \E i \in 1..Len(calls) : /\ calls[i].api = "services.create"
                                 /\ calls[i].status = 409)
      => /\ \E i, j \in 1..Len(calls) :
              /\ calls[i].api = "services.create"
              /\ calls[j].api = "services.replace"
              /\ calls[j].payload = calls[i].payload
         /\ (/\ \E j \in 1..Len(calls) : /\ calls[j].api = "services.replace"
                                         /\ DeployOk(calls[j].status)
             /\ response # ExceptionResponse)
              => /\ response.success
                 /\ Persisted.step = "complete"
                 /\ response.server_url # ""

\* C11: the update call is issued only after the service-create call was
\* answered "already exists"; a create call answered with any other error
\* ends the run with "Failed to deploy", the persisted step still deploying.
C11_UpdateOnlyOnConflict ==
    [][(pc = "deploy_create" /\ Issued /\ ErrorStatus(LastCall.status)
            /\ LastCall.status # 409)
         => /\ pc' = "idle"
            /\ response' = JsonError("run_setup", 500, "Failed to deploy")
            /\ Persisted'.step = "deploying"]_vars

\* C12: whenever the persisted step is complete a non-empty server_url is
\* persisted, and a successful run_setup result carries that server_url.
C12_CompleteHasServerUrl ==
    /\ Persisted.step = "complete" => Truthy(Persisted.server_url)
    /\ (RunEnded /\ response.success)
         => /\ response.server_url # ""
            /\ response.server_url = Persisted.server_url

\* the passwords a setup state can hold
Passwords == {generate_password(r) : r \in Randoms}

\* C13: get_status reports authenticated = false and step = start while no
\* token was ever stored; right after a successful run_setup it reports step =
\* complete and has_password = true; and its output is the same for any two
\* setup states that differ only in the value of a set password.
C13_StatusHidesPassword ==
    [][(pc = "idle" /\ response'.handler = "get_status") =>
         /\ ~tokenFile.exists
              => /\ ~response'.authenticated
                 /\ response'.step = "start"
         /\ (response.handler = "run_setup" /\ response.success)
              => /\ response'.step = "complete"
                 /\ response'.has_password
         /\ Persisted.password # None
              => \A pw \in Passwords :
                   StatusOutput([Persisted EXCEPT !.password = pw],
                                get_token(tokenFile)) = response']_vars

\* get_status answered right after a successful run
C13_Witness ==
    /\ response.handler = "get_status"
    /\ response.step = "complete"
    /\ response.has_password
    /\ response.authenticated
    /\ Persisted.password \in Passwords

\* C14: a stored token record always has a non-empty access_token.
C14_StoredTokenHasAccessToken ==
    tokenFile.exists
      => /\ "access_token" \in DOMAIN tokenFile.data
         /\ tokenFile.data.access_token # ""

\* C15: once auth_callback has returned, with any outcome, the session no
\* longer holds a code verifier.
C15_VerifierDiscarded ==
    [][AuthCallbackStep => session' = None]_vars


\* C16: a save on either store is atomic with respect to a crash of the
\* process: whatever is killed, each file is absent or holds a complete
\* record, never an empty, truncated or partly written one.
C16_SaveIsAtomic ==
    ~Unreadable(setupFile) /\ ~Unreadable(tokenFile)

\* C17: in a run that was given a billing account id and whose project was
\* created by an earlier run, the create call creates nothing (no project
\* beyond the one that exists comes into existence), its "already exists"
\* answer lets the run go on, the billing call is issued for that project with
\* the given id, and once it is answered 200 the persisted step is
\* enabling_apis.
C17_BillingOnExistingProject ==
    [][/\ Cardinality(projects') <= 1
       /\ (pc = "create_project" /\ Truthy(billing_account) /\ project_id \in projects)
            => /\ projects' = projects
               /\ (Issued /\ LastCall.status = 409) => pc' = "link_billing"
       /\ (pc = "link_billing" /\ Truthy(billing_account) /\ project_id \in projects
             /\ calls[1].status = 409)
            => /\ Issued
               /\ LastCall.api = "billingInfo.put"
               /\ LastCall.project_id = project_id
               /\ LastCall.payload.billingAccountName = request.billing_account
               /\ LastCall.status = 200
                    => /\ pc' = "enable_apis"
                       /\ Persisted'.step = "enabling_apis"
                       /\ Persisted'.project_id = project_id]_vars

\* a later run found its project in place, attached billing and moved on
C17_Witness ==
    /\ pc = "enable_apis"
    /\ projects = {project_id}
    /\ Len(calls) = 2
    /\ calls[1].api = "projects.create"
    /\ calls[1].status = 409
    /\ calls[2].api = "billingInfo.put"
    /\ calls[2].payload.billingAccountName = "billingAccounts/ABC123"
    /\ calls[2].status = 200
    /\ Persisted.step = "enabling_apis"

\* the step a cloud call belongs to, and the step a position of the run is in
StepOfCall(name) ==
    CASE name = "projects.create" -> "creating_project"
      [] name = "billingInfo.put" -> "linking_billing"
      [] name \in {APIS[i] : i \in 1..Len(APIS)} -> "enabling_apis"
      [] name \in {"services.create", "services.replace"} -> "deploying"
      [] OTHER -> None
StepAt(p) ==
    CASE p = "create_project" -> "creating_project"
      [] p = "link_billing" -> "linking_billing"
      [] p = "enable_apis" -> "enabling_apis"
      [] p \in {"deploy_create", "deploy_update"} -> "deploying"
      [] OTHER -> None

\* C18: the step marker is persisted before the calls of the step: the
\* project-create call is issued only while the persisted step is
\* creating_project, the billing call only while it is linking_billing, the
\* API-enable calls only while it is enabling_apis, the service create and
\* update calls only while it is deploying; while such a call is awaited (a
\* crash there) and when the run aborts on it, the persisted step names the
\* step of that call.
C18_StepSavedBeforeCalls ==
    [][/\ (Issued /\ StepOfCall(LastCall.api) # None)
            => /\ LastCall.step = StepOfCall(LastCall.api)
               /\ Persisted.step = LastCall.step
       /\ StepAt(pc) # None
            => /\ ~Unreadable(setupFile)
               /\ Persisted.step = StepAt(pc)
               /\ (pc' = "idle" /\ response'.handler = "run_setup")
                    => Persisted'.step = StepAt(pc)]_vars

\* the run aborted on the service update with deploying persisted
C18_Witness ==
    /\ RunEnded
    /\ response.error = "Failed to deploy"
    /\ calls[Len(calls)].api = "services.replace"
    /\ calls[Len(calls)].step = "deploying"
    /\ calls[1].step = "creating_project"
    /\ Persisted.step = "deploying"

\* the calls of the latest request that go to the cloud / deploy the service
CloudCall(c) == c.api \notin {"token", "addon.options", "addon.restart"}
DeployCall(c) == c.api \in {"services.create", "services.replace"}

\* C19: when run_setup returns success, the password in the AUTH credential of
\* every service descriptor it sent, the persisted password, the password
\* handed to update_addon_config and the returned password are one value, and
\* the project_id of every cloud call of the run is the persisted and the
\* returned project_id.
C19_OnePasswordOneProject ==
    (RunEnded /\ response.success) =>
        /\ Persisted.password = response.password
        /\ Persisted.project_id = response.project_id
        /\ \A i \in 1..Len(calls) :
             /\ DeployCall(calls[i])
                  => calls[i].payload.AUTH = "hauser:" \o response.password
             /\ calls[i].api = "addon.options"
                  => /\ calls[i].payload.auth_pass = response.password
                     /\ calls[i].payload.google_project_id = response.project_id
             /\ CloudCall(calls[i]) => calls[i].project_id = response.project_id

\* a successful run that took the update fallback and called the publisher
C19_Witness ==
    /\ RunEnded
    /\ response.success
    /\ response.password \in Passwords
    /\ \E i \in 1..Len(calls) : calls[i].api = "services.replace"
    /\ \E i \in 1..Len(calls) : calls[i].api = "addon.options"
    /\ calls[1].status = 409

\* C20: once a token is stored, with run_setup invoked again after every
\* aborted run and every project-create, billing and service create/update
\* call in the end answered with success or conflict, the persisted step
\* eventually is complete.
C20_EventuallyComplete ==
    [](tokenFile.exists => CanBuildHeaders(tokenFile))
        => (tokenFile.exists ~> (Persisted.step = "complete"))

====
